---- MODULE Spec2Model ----
(***************************************************************************)
(* A model of duplicate-finder (src/main.py): SizeParser.parse_size,       *)
(* FileProcessor.process_file / find_duplicates (directory walk, worker    *)
(* pool, aggregation) and the control flow of main.                        *)
(*                                                                         *)
(* Strings are sequences of one-character strings, so that upper(),        *)
(* isdigit(), startswith() and endswith() are computed character by        *)
(* character as the Python code computes them.                             *)
(***************************************************************************)
EXTENDS Integers, Sequences, FiniteSets, TLC

(***************************************************************************)
(* Bounds of the model.                                                    *)
(***************************************************************************)
\* longest size string given to parse_size in SpecParse
MaxLen == 4
\* filesystem events (delete, rewrite, chmod) that may happen during one scan
MaxFsEvents == 1
\* largest multiprocessing.cpu_count() of a host: the widths of the pool are
\* 1..MaxCpuCount
MaxCpuCount == 2

(***************************************************************************)
(* Python str helpers.                                                     *)
(***************************************************************************)
Digits == {"0", "1", "2", "3", "4", "5", "6", "7", "8", "9"}

DigitVal(c) ==
    CASE c = "0" -> 0 [] c = "1" -> 1 [] c = "2" -> 2 [] c = "3" -> 3
      [] c = "4" -> 4 [] c = "5" -> 5 [] c = "6" -> 6 [] c = "7" -> 7
      [] c = "8" -> 8 [] c = "9" -> 9

\* str.upper() on one character (the letters the model's alphabets hold)
UpperChar(c) ==
    CASE c = "b" -> "B" [] c = "k" -> "K" [] c = "m" -> "M" [] c = "g" -> "G"
      [] c = "t" -> "T" [] c = "x" -> "X" [] c = "l" -> "L" [] c = "o" -> "O"
      [] c = "a" -> "A" [] c = "d" -> "D" [] c = "i" -> "I" [] c = "s" -> "S"
      [] c = "u" -> "U" [] c = "r" -> "R"
      [] OTHER -> c

\* str.lower() on one character
LowerChar(c) ==
    CASE c = "B" -> "b" [] c = "K" -> "k" [] c = "M" -> "m" [] c = "G" -> "g"
      [] c = "T" -> "t" [] c = "X" -> "x" [] c = "L" -> "l" [] c = "O" -> "o"
      [] c = "A" -> "a" [] c = "D" -> "d" [] c = "I" -> "i" [] c = "S" -> "s"
      [] c = "U" -> "u" [] c = "R" -> "r"
      [] OTHER -> c

Upper(s) == [i \in 1..Len(s) |-> UpperChar(s[i])]
Lower(s) == [i \in 1..Len(s) |-> LowerChar(s[i])]

\* str.isdigit(): non-empty and every character a digit
IsDigit(s) == Len(s) > 0 /\ \A i \in 1..Len(s) : s[i] \in Digits

\* s[:-1]
ButLast(s) == SubSeq(s, 1, Len(s) - 1)

\* int(s) of a decimal digit string
RECURSIVE ToInt(_)
ToInt(s) == IF Len(s) = 0 THEN 0 ELSE 10 * ToInt(ButLast(s)) + DigitVal(s[Len(s)])

StartsWith(s, p) == Len(p) <= Len(s) /\ SubSeq(s, 1, Len(p)) = p
EndsWith(s, p) == Len(p) <= Len(s) /\ SubSeq(s, Len(s) - Len(p) + 1, Len(s)) = p

(***************************************************************************)
(* SizeParser                                                              *)
(***************************************************************************)
UnitNames == {"K", "M", "G", "T"}

\* UNITS[u] is 1024**UNITS(u): Python integers are unbounded, so a byte count is
\* kept as val * 1024**pow in normal form (val not a multiple of 1024 unless
\* pow = 0 ... see Bytes) instead of a machine integer that would overflow.
UNITS(u) ==
    CASE u = "K" -> 1
      [] u = "M" -> 2
      [] u = "G" -> 3
      [] u = "T" -> 4

\* the integer n * 1024**k, in the normal form in which equal integers are equal
RECURSIVE Bytes(_, _)
Bytes(n, k) ==
    IF n = 0 THEN [val |-> 0, pow |-> 0]
    ELSE IF n % 1024 = 0 THEN Bytes(n \div 1024, k + 1)
    ELSE [val |-> n, pow |-> k]

\* the outcomes of a call: a returned integer, or ValueError raised
Returned(b) == [kind |-> "returned", bytes |-> b]
ValueError == [kind |-> "ValueError", bytes |-> Bytes(0, 0)]
NotCalled == [kind |-> "none", bytes |-> Bytes(0, 0)]

\* the branch "Handle KB, MB, GB, TB" of parse_size, s already upper-cased
UnitBranch(s) ==
    IF Len(s) > 2 /\ s[Len(s) - 1] \notin Digits
    THEN LET t == ButLast(s)
             unit == t[Len(t)]
         IN IF unit \in UnitNames /\ IsDigit(ButLast(t))
            THEN Returned(Bytes(ToInt(ButLast(t)), UNITS(unit)))
            ELSE ValueError
    ELSE ValueError

\* parse_size without its first statement, size_str = size_str.upper()
parse_size_no_upper(size_str) ==
    LET s == size_str
    IN IF s = <<"0", "B">> THEN Returned(Bytes(0, 0))
       ELSE IF IsDigit(s) THEN Returned(Bytes(ToInt(s), 0))
       ELSE IF EndsWith(s, <<"B">>)
            THEN IF IsDigit(ButLast(s)) THEN Returned(Bytes(ToInt(ButLast(s)), 0))
                 ELSE UnitBranch(s)
            ELSE ValueError

parse_size(size_str) ==
    LET s == Upper(size_str)
    IN IF s = <<"0", "B">> THEN Returned(Bytes(0, 0))
       ELSE IF IsDigit(s) THEN Returned(Bytes(ToInt(s), 0))
       ELSE IF EndsWith(s, <<"B">>)
            THEN IF IsDigit(ButLast(s)) THEN Returned(Bytes(ToInt(ButLast(s)), 0))
                 ELSE UnitBranch(s)
            ELSE ValueError

(***************************************************************************)
(* The filesystem: a fixed universe of directories and files below the     *)
(* scanned directory.  A path is the tuple of its components below the     *)
(* scanned directory; PathStr renders it as the string os.walk and         *)
(* os.path.join build.                                                     *)
(***************************************************************************)
NameChars(n) ==
    CASE n = "data" -> <<"d", "a", "t", "a">>
      [] n = "data2" -> <<"d", "a", "t", "a", "2">>
      [] n = "sub" -> <<"s", "u", "b">>
      [] n = ".git" -> <<".", "g", "i", "t">>
      [] n = "obj" -> <<"o", "b", "j">>
      [] n = "a.txt" -> <<"a", ".", "t", "x", "t">>
      [] n = "b.txt" -> <<"b", ".", "t", "x", "t">>
      [] n = "c.log" -> <<"c", ".", "l", "o", "g">>
      [] n = "d.LOG" -> <<"d", ".", "L", "O", "G">>
      [] n = "e.txt" -> <<"e", ".", "t", "x", "t">>
      [] n = "f.txt" -> <<"f", ".", "t", "x", "t">>

\* the scanned directory (an absolute path) and the working directory
RootStr == <<"/", "r">>
Cwd == <<"/", "r">>

RootDir == <<>>
\* every directory and file, in the order the platform lists them
AllDirs ==
    << <<>>, <<".git">>, <<".git", "obj">>, <<"data">>, <<"data", ".git">>,
       <<"data", "sub">>, <<"data2">> >>
AllFiles ==
    << <<"a.txt">>, <<".git", "obj", "e.txt">>, <<"data", "b.txt">>,
       <<"data", ".git", "f.txt">>, <<"data", "sub", "c.log">>, <<"data2", "d.LOG">> >>

Range(q) == {q[i] : i \in DOMAIN q}
Dirs == Range(AllDirs)
Files == Range(AllFiles)

Parent(p) == SubSeq(p, 1, Len(p) - 1)
BaseName(p) == p[Len(p)]

\* os.path.join(root, name), from the scanned directory down
RECURSIVE PathStr(_)
PathStr(p) ==
    IF Len(p) = 0 THEN RootStr
    ELSE PathStr(Parent(p)) \o <<"/">> \o NameChars(BaseName(p))

\* os.path.abspath of a string without "." or ".." components: a relative path
\* is joined to the working directory and a trailing separator is dropped
abspath(d) ==
    LET a == IF Len(d) > 0 /\ d[1] = "/" THEN d ELSE Cwd \o <<"/">> \o d
    IN IF Len(a) > 1 /\ a[Len(a)] = "/" THEN ButLast(a) ELSE a

\* file contents (byte strings) and their MD5 digests; distinct contents of the
\* model have distinct digests
Contents == {<<>>, <<"x">>, <<"y">>, <<"x", "x">>}

md5(content) ==
    CASE content = <<>> -> "d41d"
      [] content = <<"x">> -> "9dd4"
      [] content = <<"y">> -> "4152"
      [] content = <<"x", "x">> -> "9336"

Digest == {md5(c) : c \in Contents}

\* os.path.getsize of a file holding content
getsize(content) == Len(content)

(***************************************************************************)
(* State                                                                   *)
(***************************************************************************)
VARIABLES
    size_str,            \* SpecParse: the argument of parse_size
    parse_out,           \* SpecParse: NotCalled, then what parse_size returned or raised
    fs,                  \* per file: present, content, readable
    dirs_present,        \* the directories that exist
    fs_events,           \* number of filesystem events so far
    cpu_count,           \* multiprocessing.cpu_count() of the host (line 200)
    pc,                  \* where find_duplicates is: idle, walk, pool, finish, returned, raised
    exclude_dirs,        \* normalised to absolute paths (line 171)
    exclude_extensions,  \* lower-cased (line 175)
    min_size,
    ignore_dot_dirs,
    walk_stack,          \* directories os.walk has still to visit
    files_to_process,    \* list of (filepath, min_size)
    next_task,           \* index of the next candidate the pool hands to a worker
    workers,             \* the busy worker processes: candidate in hand, its measured size
    results,             \* outcomes the workers have delivered, not yet iterated over
    hash_map,
    total_size,
    files_processed,
    ret,                 \* what find_duplicates returned
    outcome,             \* history: outcome of each candidate's process_file call
    consumed,            \* history: the candidates whose outcome the loop has taken
    args,                \* main: the parsed command line
    pc_main,             \* main: idle, start, parse, config, scan, exited
    main_min_size,       \* main: min_size as parsed from args.min_size
    exit_code,           \* main: -1 while running, then the exit status
    log,                 \* main, history: the calls made so far, in order
    exported             \* main: export_to_file has written the output file

scan_cfg == <<exclude_dirs, exclude_extensions, min_size, ignore_dot_dirs>>
fs_vars == <<fs, dirs_present, fs_events, cpu_count>>
parse_vars == <<size_str, parse_out>>
agg_vars == <<hash_map, total_size, files_processed>>
pool_vars == <<next_task, workers, results, outcome>>
main_vars == <<args, pc_main, main_min_size, exit_code, log, exported>>

vars ==
    <<size_str, parse_out, fs, dirs_present, fs_events, cpu_count, pc, exclude_dirs,
      exclude_extensions, min_size, ignore_dot_dirs, walk_stack, files_to_process,
      next_task, workers, results, hash_map, total_size, files_processed, ret,
      outcome, consumed, args, pc_main, main_min_size, exit_code, log, exported>>

(***************************************************************************)
(* find_duplicates: entry (lines 165-178)                                  *)
(***************************************************************************)
\* the outcomes of process_file: None, or the tuple (file_hash, filepath, file_size)
None == [ok |-> FALSE, file_hash |-> "", filepath |-> <<>>, file_size |-> 0]
Record(h, f, n) == [ok |-> TRUE, file_hash |-> h, filepath |-> f, file_size |-> n]

\* history of one candidate: not yet processed, or how process_file ended
Pending == [kind |-> "pending", result |-> None]
Outcome(k, r) == [kind |-> k, result |-> r]
NoReturn == [duplicate_files |-> [h \in Digest |-> <<>>], total_size |-> 0,
             duplicate_size |-> 0, files_processed |-> 0]

\* the locals of find_duplicates before the walk (lines 165-167, 178)
Locals ==
    /\ hash_map = [h \in Digest |-> <<>>]
    /\ total_size = 0
    /\ files_processed = 0
    /\ files_to_process = <<>>
    /\ next_task = 1
    /\ workers = {}
    /\ results = <<>>
    /\ ret = NoReturn
    /\ outcome = <<>>
    /\ consumed = <<>>

\* exclude_dirs = [os.path.abspath(d) for d in exclude_dirs]
NormDirs(excl_dirs) == [i \in DOMAIN excl_dirs |-> abspath(excl_dirs[i])]
\* exclude_extensions without the call of lower()
NormExts_as_given(excl_exts) == excl_exts
\* exclude_extensions = [ext.lower() for ext in exclude_extensions]
NormExts(excl_exts) == [i \in DOMAIN excl_exts |-> Lower(excl_exts[i])]

\* the state at the entry of find_duplicates(directory, excl_dirs, excl_exts, m, dot)
FindDuplicatesEntry(excl_dirs, excl_exts, m, dot) ==
    /\ Locals
    /\ exclude_dirs = NormDirs(excl_dirs)
    /\ exclude_extensions = NormExts(excl_exts)
    /\ min_size = m
    /\ ignore_dot_dirs = dot
    /\ walk_stack = <<RootDir>>
    /\ pc = "walk"

(***************************************************************************)
(* find_duplicates: collection (lines 179-197), one os.walk iteration      *)
(***************************************************************************)
\* the exclusion test with == in the place of startswith
InExcludedDir_exact(root, excl) ==
    \E i \in DOMAIN excl : abspath(PathStr(root)) = excl[i]

\* any(os.path.abspath(root).startswith(d) for d in exclude_dirs)
InExcludedDir(root, excl) ==
    \E i \in DOMAIN excl : StartsWith(abspath(PathStr(root)), excl[i])

\* exclude_extensions and any(filename.lower().endswith(ext) ...)
HasExcludedExtension(filename, exts) ==
    \E i \in DOMAIN exts : EndsWith(Lower(NameChars(filename)), exts[i])

\* d.startswith(".")
IsDotName(d) == StartsWith(NameChars(d), <<".">>)

\* os.scandir(top): the sub-directories and the files of top that exist now
ListDirs(top) ==
    SelectSeq(AllDirs, LAMBDA d : Len(d) > 0 /\ Parent(d) = top /\ d \in dirs_present)
ListFiles(top) ==
    SelectSeq(AllFiles, LAMBDA f : Parent(f) = top /\ fs[f].present)

\* the loop body for one (root, dirs, files): what is appended to
\* files_to_process, and the dirs os.walk will descend into
CollectedFiles(root, files) ==
    IF InExcludedDir(root, exclude_dirs) THEN <<>>
    ELSE LET kept == SelectSeq(files, LAMBDA f :
                         ~ HasExcludedExtension(BaseName(f), exclude_extensions))
         IN [i \in DOMAIN kept |-> <<kept[i], min_size>>]

DescendInto(root, dirs) ==
    IF InExcludedDir(root, exclude_dirs) THEN dirs
    ELSE IF ignore_dot_dirs
         THEN SelectSeq(dirs, LAMBDA d : ~ IsDotName(BaseName(d)))
         ELSE dirs

WalkStep ==
    /\ pc = "walk"
    /\ walk_stack # <<>>
    /\ LET top == Head(walk_stack)
       IN IF top \notin dirs_present
          THEN \* scandir fails: os.walk skips the directory silently
               /\ walk_stack' = Tail(walk_stack)
               /\ UNCHANGED files_to_process
          ELSE /\ files_to_process' =
                      files_to_process \o CollectedFiles(top, ListFiles(top))
               /\ walk_stack' = DescendInto(top, ListDirs(top)) \o Tail(walk_stack)
    /\ UNCHANGED <<parse_vars, main_vars, fs_vars, scan_cfg, agg_vars, pool_vars, pc, ret, consumed>>

\* the walk is over: the pool is created (line 203), imap_unordered submits
StartPool ==
    /\ pc = "walk"
    /\ walk_stack = <<>>
    /\ pc' = "pool"
    /\ outcome' = [i \in DOMAIN files_to_process |-> Pending]
    /\ UNCHANGED <<parse_vars, main_vars, fs_vars, scan_cfg, agg_vars, walk_stack,
                   files_to_process, next_task, workers, results, ret, consumed>>

(***************************************************************************)
(* process_file (lines 124-137), run by a worker process of the pool       *)
(***************************************************************************)
\* the size test with <= in the place of <
BelowMinSize_le(file_size, m) == file_size <= m

\* if file_size < min_size
BelowMinSize(file_size, m) == file_size < m

\* os.path.getsize(filepath) raises OSError
GetsizeFails(f) == ~ fs[f].present

\* open(filepath, "rb") or a read raises IOError
ReadFails(f) == ~ fs[f].present \/ ~ fs[f].readable

\* calculate_file_hash(filepath) of a file that can be read
calculate_file_hash(f) == md5(fs[f].content)

\* a worker's outcome reaches the result queue, tagged with its candidate
Deliver(i, kind, r) ==
    /\ results' = Append(results, [idx |-> i, result |-> r])
    /\ outcome' = [outcome EXCEPT ![i] = Outcome(kind, r)]

\* a free worker takes the next candidate and measures its size (lines 124-131)
ProcessFileSize ==
    /\ pc = "pool"
    /\ Cardinality(workers) < cpu_count
    /\ next_task <= Len(files_to_process)
    /\ LET i == next_task
           filepath == files_to_process[i][1]
           m == files_to_process[i][2]
       IN /\ next_task' = i + 1
          /\ IF GetsizeFails(filepath)
             THEN Deliver(i, "error", None) /\ UNCHANGED workers
             ELSE IF BelowMinSize(getsize(fs[filepath].content), m)
                  THEN Deliver(i, "small", None) /\ UNCHANGED workers
                  ELSE /\ workers' = workers \cup
                                 {[idx |-> i, size |-> getsize(fs[filepath].content)]}
                       /\ UNCHANGED <<results, outcome>>
    /\ UNCHANGED <<parse_vars, main_vars, fs_vars, scan_cfg, agg_vars, pc, walk_stack,
                   files_to_process, ret, consumed>>

\* the worker hashes the file and returns (lines 133-137)
ProcessFileHash(w) ==
    /\ pc = "pool"
    /\ w \in workers
    /\ LET i == w.idx
           filepath == files_to_process[i][1]
       IN IF ReadFails(filepath)
          THEN Deliver(i, "error", None)
          ELSE Deliver(i, "record",
                       Record(calculate_file_hash(filepath), filepath, w.size))
    /\ workers' = workers \ {w}
    /\ UNCHANGED <<parse_vars, main_vars, fs_vars, scan_cfg, agg_vars, pc, walk_stack,
                   files_to_process, next_task, ret, consumed>>

(***************************************************************************)
(* find_duplicates: aggregation (lines 206-223)                            *)
(***************************************************************************)
\* the loop body with files_processed += 1 outside "if result:"
Aggregate_count_all(result) ==
    /\ files_processed' = files_processed + 1
    /\ IF result.ok
       THEN /\ hash_map' = [hash_map EXCEPT ![result.file_hash] =
                                Append(@, result.filepath)]
            /\ total_size' = total_size + result.file_size
       ELSE UNCHANGED <<hash_map, total_size>>

\* the loop body counting a record only when its digest was seen before
Aggregate_duplicates_only(result) ==
    IF result.ok
    THEN /\ hash_map' = [hash_map EXCEPT ![result.file_hash] =
                             Append(@, result.filepath)]
         /\ IF hash_map[result.file_hash] # <<>>
            THEN /\ total_size' = total_size + result.file_size
                 /\ files_processed' = files_processed + 1
            ELSE UNCHANGED <<total_size, files_processed>>
    ELSE UNCHANGED agg_vars

\* the body of "for result in results" for one result
Aggregate(result) ==
    IF result.ok
    THEN /\ hash_map' = [hash_map EXCEPT ![result.file_hash] =
                             Append(@, result.filepath)]
         /\ total_size' = total_size + result.file_size
         /\ files_processed' = files_processed + 1
    ELSE UNCHANGED agg_vars

Consume ==
    /\ pc = "pool"
    /\ results # <<>>
    /\ Aggregate(Head(results).result)
    /\ results' = Tail(results)
    /\ consumed' = Append(consumed, Head(results).idx)
    /\ UNCHANGED <<parse_vars, main_vars, fs_vars, scan_cfg, pc, walk_stack, files_to_process,
                   next_task, workers, outcome, ret>>

\* the loop left as soon as every candidate has been handed to a worker
LoopDone_early == next_task > Len(files_to_process)

\* the iterator of imap_unordered stops after as many results as candidates
LoopDone == Len(consumed) = Len(files_to_process)

\* the filter with len(files) > 0 in the place of len(files) > 1
DuplicateFiles_keep_single(hm) == [h \in Digest |-> hm[h]]

\* {h: files for h, files in hash_map.items() if len(files) > 1}
DuplicateFiles(hm) == [h \in Digest |-> IF Len(hm[h]) > 1 THEN hm[h] ELSE <<>>]
Keys(m) == {h \in Digest : m[h] # <<>>}

\* sum(os.path.getsize(files[0]) * (len(files) - 1) for files in ...values()),
\* over the sets keyed by S
RECURSIVE DuplicateSizeOver(_, _)
DuplicateSizeOver(dup, S) ==
    IF S = {} THEN 0
    ELSE LET h == CHOOSE k \in S : TRUE
         IN getsize(fs[dup[h][1]].content) * (Len(dup[h]) - 1)
              + DuplicateSizeOver(dup, S \ {h})

DuplicateSize(dup) == DuplicateSizeOver(dup, Keys(dup))

Finish ==
    /\ pc = "pool"
    /\ LoopDone
    /\ LET dup == DuplicateFiles(hash_map)
       IN IF \E h \in Keys(dup) : GetsizeFails(dup[h][1])
          THEN pc' = "raised" /\ UNCHANGED ret
          ELSE /\ pc' = "returned"
               /\ ret' = [duplicate_files |-> dup, total_size |-> total_size,
                          duplicate_size |-> DuplicateSize(dup),
                          files_processed |-> files_processed]
    /\ UNCHANGED <<parse_vars, main_vars, fs_vars, scan_cfg, agg_vars, pool_vars, walk_stack,
                   files_to_process, consumed>>

(***************************************************************************)
(* The environment: other processes change the tree during the scan        *)
(***************************************************************************)
Scanning == pc \in {"walk", "pool"}

FsEvent(newfs, newdirs) ==
    /\ Scanning
    /\ fs_events < MaxFsEvents
    /\ fs' = newfs
    /\ dirs_present' = newdirs
    /\ fs_events' = fs_events + 1
    /\ UNCHANGED cpu_count
    /\ UNCHANGED <<parse_vars, main_vars, scan_cfg, agg_vars, pool_vars, pc, walk_stack,
                   files_to_process, ret, consumed>>

DeleteFile(f) ==
    /\ fs[f].present
    /\ FsEvent([fs EXCEPT ![f].present = FALSE], dirs_present)

RewriteFile(f, c) ==
    /\ fs[f].present
    /\ fs[f].content # c
    /\ FsEvent([fs EXCEPT ![f].content = c], dirs_present)

ChmodFile(f) ==
    /\ fs[f].present
    /\ fs[f].readable
    /\ FsEvent([fs EXCEPT ![f].readable = FALSE], dirs_present)

IsPrefix(p, q) == Len(p) <= Len(q) /\ SubSeq(q, 1, Len(p)) = p

DeleteDir(d) ==
    /\ d \in dirs_present
    /\ d # RootDir
    /\ FsEvent([f \in Files |-> IF IsPrefix(d, f)
                                 THEN [fs[f] EXCEPT !.present = FALSE] ELSE fs[f]],
               {e \in dirs_present : ~ IsPrefix(d, e)})

(***************************************************************************)
(* Spec: find_duplicates called on a tree that does not change             *)
(***************************************************************************)
\* the arguments of the calls
ExcludeDirArgs ==
    { <<>>,
      << RootStr \o <<"/">> \o NameChars("data") >>,
      << NameChars("data") \o <<"/">> \o NameChars("sub") \o <<"/">> >> }
MinSizeArgs == {0, 1, 2}

FileState(c, r) == [present |-> TRUE, content |-> c, readable |-> r]
Absent == [present |-> FALSE, content |-> <<>>, readable |-> TRUE]

\* the directories of these trees: data holds no dot-directory
TreeDirs == Dirs \ {<<"data", ".git">>}

\* the trees scanned: what each file may hold when the scan starts
FileChoices(f) ==
    CASE f = <<"a.txt">> ->
             {FileState(c, TRUE) : c \in Contents} \cup {FileState(<<"x">>, FALSE)}
      [] f = <<"data", "b.txt">> -> {FileState(c, TRUE) : c \in Contents}
      [] f = <<"data", "sub", "c.log">> ->
             {FileState(c, TRUE) : c \in {<<"x">>, <<"y">>}}
      [] f = <<"data2", "d.LOG">> ->
             {FileState(c, TRUE) : c \in {<<"x">>, <<"x", "x">>}}
      [] f = <<".git", "obj", "e.txt">> -> {FileState(<<"x">>, TRUE)}
      [] f = <<"data", ".git", "f.txt">> -> {Absent}

Trees == {t \in [Files -> UNION {FileChoices(f) : f \in Files}] :
              \A f \in Files : t[f] \in FileChoices(f)}

ParseIdle == size_str = <<>> /\ parse_out = NotCalled

NoArgs == [directory |-> <<>>, min_size |-> <<>>, dry_run |-> FALSE, output |-> FALSE,
           exclude_dir |-> <<>>, exclude_ext |-> <<>>, include_dot_dirs |-> FALSE]

MainIdle ==
    /\ args = NoArgs
    /\ pc_main = "idle"
    /\ main_min_size = 0
    /\ exit_code = -1
    /\ log = <<>>
    /\ exported = FALSE

Init ==
    /\ ParseIdle
    /\ MainIdle
    /\ fs \in Trees
    /\ dirs_present = TreeDirs
    /\ fs_events = 0
    /\ cpu_count \in 1..MaxCpuCount
    /\ \E e \in ExcludeDirArgs, m \in MinSizeArgs, dot \in BOOLEAN :
           FindDuplicatesEntry(e, <<>>, m, dot)

ScanNext ==
    \/ WalkStep
    \/ StartPool
    \/ ProcessFileSize
    \/ \E w \in workers : ProcessFileHash(w)
    \/ Consume
    \/ Finish

Next == ScanNext

Spec == Init /\ [][Next]_vars

(***************************************************************************)
(* SpecEvents: find_duplicates called on a tree that other processes may   *)
(* change while it runs                                                    *)
(***************************************************************************)
\* three files, in the scanned directory and one and two levels below it; the
\* deepest may be unreadable from the start
EventFiles == {<<"a.txt">>, <<"data", "b.txt">>, <<"data", "sub", "c.log">>}

EventTrees ==
    {t \in [Files -> {Absent} \cup {FileState(c, r) : c \in {<<"x">>, <<"x", "x">>},
                                                      r \in BOOLEAN}] :
        \A f \in Files :
            /\ t[f].present <=> f \in EventFiles
            /\ f # <<"data", "sub", "c.log">> => t[f].readable}

InitEvents ==
    /\ ParseIdle
    /\ MainIdle
    /\ fs \in EventTrees
    /\ dirs_present = TreeDirs
    /\ fs_events = 0
    /\ cpu_count \in 1..MaxCpuCount
    /\ FindDuplicatesEntry(<<>>, <<>>, 1, TRUE)

FsNext ==
    \/ \E f \in Files : DeleteFile(f)
    \/ \E f \in Files, c \in Contents : RewriteFile(f, c)
    \/ \E f \in Files : ChmodFile(f)
    \/ \E d \in Dirs : DeleteDir(d)

NextEvents == ScanNext \/ FsNext

SpecEvents == InitEvents /\ [][NextEvents]_vars

(***************************************************************************)
(* SpecParse: parse_size applied to every string of up to MaxLen           *)
(* characters over SizeAlphabet.                                           *)
(***************************************************************************)
SizeAlphabet == {"0", "1", "7", "k", "M", "g", "T", "B", "b", "-", " ", "X"}

SizeStrings == UNION {[1..n -> SizeAlphabet] : n \in 0..MaxLen}

\* find_duplicates has not been called
CallIdle ==
    /\ pc = "idle"
    /\ exclude_dirs = <<>>
    /\ exclude_extensions = <<>>
    /\ min_size = 0
    /\ ignore_dot_dirs = TRUE
    /\ walk_stack = <<>>
    /\ Locals

ScanIdle ==
    /\ fs = [f \in Files |-> FileState(<<>>, TRUE)]
    /\ dirs_present = Dirs
    /\ fs_events = 0
    /\ cpu_count = 1
    /\ CallIdle

scan_vars ==
    <<fs, dirs_present, fs_events, cpu_count, pc, exclude_dirs, exclude_extensions, min_size,
      ignore_dot_dirs, walk_stack, files_to_process, next_task, workers, results,
      hash_map, total_size, files_processed, ret, outcome, consumed>>

InitParse ==
    /\ size_str \in SizeStrings
    /\ parse_out = NotCalled
    /\ ScanIdle
    /\ MainIdle

ParseSize ==
    /\ parse_out = NotCalled
    /\ parse_out' = parse_size(size_str)
    /\ UNCHANGED <<size_str, scan_vars, main_vars>>

NextParse == ParseSize

SpecParse == InitParse /\ [][NextParse]_vars

(***************************************************************************)
(* main (lines 414-515)                                                    *)
(***************************************************************************)
\* main without the directory check
isdir_unchecked(d) == TRUE

\* os.path.isdir(args.directory)
isdir(d) == d = RootStr /\ RootDir \in dirs_present

\* the integer a byte count stands for (the model's arguments stay below 2^31)
RECURSIVE AsInt(_)
AsInt(b) == IF b.pow = 0 THEN b.val ELSE 1024 * AsInt([b EXCEPT !.pow = @ - 1])

\* the dry-run return skipped when an output file is asked for
DryRun_unless_output(a) == a.dry_run /\ ~ a.output

\* if args.dry_run
DryRun(a) == a.dry_run

Exit(code) == pc_main' = "exited" /\ exit_code' = code

\* lines 419-423
MainCheckDir ==
    /\ pc_main = "start"
    /\ log' = Append(log, "isdir")
    /\ IF ~ isdir(args.directory) THEN Exit(1)
       ELSE pc_main' = "parse" /\ UNCHANGED exit_code
    /\ UNCHANGED <<parse_vars, scan_vars, args, main_min_size, exported>>

\* lines 425-431
MainParseSize ==
    /\ pc_main = "parse"
    /\ log' = Append(log, "parse_size")
    /\ LET r == parse_size(args.min_size)
       IN IF r = ValueError THEN Exit(1) /\ UNCHANGED main_min_size
          ELSE /\ main_min_size' = AsInt(r.bytes)
               /\ pc_main' = "config"
               /\ UNCHANGED exit_code
    /\ UNCHANGED <<parse_vars, scan_vars, args, exported>>

\* lines 433-473: the configuration panel, the dry-run return, and the call of
\* find_duplicates up to the start of its walk
MainConfig ==
    /\ pc_main = "config"
    /\ IF DryRun(args)
       THEN /\ log' = Append(log, "print_config")
            /\ Exit(0)
            /\ UNCHANGED scan_vars
       ELSE /\ log' = log \o <<"print_config", "find_duplicates">>
            /\ pc_main' = "scan"
            /\ exclude_dirs' = NormDirs(args.exclude_dir)
            /\ exclude_extensions' = NormExts(args.exclude_ext)
            /\ min_size' = main_min_size
            /\ ignore_dot_dirs' = ~ args.include_dot_dirs
            /\ walk_stack' = <<RootDir>>
            /\ pc' = "walk"
            /\ UNCHANGED <<fs_vars, agg_vars, pool_vars, files_to_process, ret,
                           consumed, exit_code>>
    /\ UNCHANGED <<parse_vars, args, main_min_size, exported>>

\* lines 476-515: the report, the per-set os.path.getsize(file_list[0]) and the
\* export; an exception out of find_duplicates or getsize ends main with a
\* traceback and exit status 1
MainReport ==
    /\ pc_main = "scan"
    /\ pc \in {"returned", "raised"}
    /\ LET dup == ret.duplicate_files
       IN IF pc = "raised" THEN Exit(1) /\ UNCHANGED <<log, exported>>
          ELSE IF Keys(dup) = {} THEN Exit(0) /\ UNCHANGED <<log, exported>>
          ELSE IF \E h \in Keys(dup) : GetsizeFails(dup[h][1])
               THEN Exit(1) /\ UNCHANGED <<log, exported>>
               ELSE /\ Exit(0)
                    /\ exported' = args.output
                    /\ log' = IF args.output THEN Append(log, "export_to_file") ELSE log
    /\ UNCHANGED <<parse_vars, scan_vars, args, main_min_size>>

(***************************************************************************)
(* SpecMain: main run on a command line                                    *)
(***************************************************************************)
DirectoryArgs == {RootStr, <<"/", "n">>}
MinSizeStrings ==
    { <<"0", "B">>, <<"1">>, <<"2", "b">>, <<"1", "k", "b">>, <<"1", "K">>,
      <<"x">> }
ExcludeDirOptions == { <<>>, << NameChars("data") >> }

MainTrees ==
    {t \in Trees : /\ t[<<"a.txt">>].readable
                   /\ t[<<"a.txt">>].content \in {<<"x">>, <<"y">>}
                   /\ t[<<"data", "b.txt">>].content = <<"x">>
                   /\ t[<<"data", "sub", "c.log">>].content = <<"x">>
                   /\ t[<<"data2", "d.LOG">>].content = <<"x">>}

InitMain ==
    /\ ParseIdle
    /\ fs \in MainTrees
    /\ dirs_present = TreeDirs
    /\ fs_events = 0
    /\ cpu_count \in 1..MaxCpuCount
    /\ CallIdle
    /\ args \in [directory : DirectoryArgs, min_size : MinSizeStrings,
                 dry_run : BOOLEAN, output : BOOLEAN,
                 exclude_dir : ExcludeDirOptions, exclude_ext : {<<>>},
                 include_dot_dirs : BOOLEAN]
    /\ pc_main = "start"
    /\ main_min_size = 0
    /\ exit_code = -1
    /\ log = <<>>
    /\ exported = FALSE

MainNext ==
    \/ MainCheckDir
    \/ MainParseSize
    \/ MainConfig
    \/ MainReport

NextMain == MainNext \/ ScanNext

SpecMain == InitMain /\ [][NextMain]_vars

(***************************************************************************)
(* SpecCollect: find_duplicates called with every filter of the collection *)
(* on a tree whose directory data holds a dot-directory                    *)
(***************************************************************************)
ExcludeExtArgs ==
    { <<>>,
      << <<".", "L", "O", "G">> >>,
      << <<".", "l", "o", "g">> >>,
      << <<"t", "x", "t">>, <<".", "L", "o", "g">> >> }

CollectMinSizeArgs == {0, 2}

\* every file of the universe exists and can be read
CollectTrees ==
    {t \in [Files -> {FileState(c, TRUE) : c \in Contents}] :
        /\ t[<<"a.txt">>].content \in {<<"x">>, <<"x", "x">>}
        /\ t[<<"data", "sub", "c.log">>].content \in {<<"x">>, <<"y">>}
        /\ \A f \in Files \ {<<"a.txt">>, <<"data", "sub", "c.log">>} :
               t[f].content = <<"x">>}

InitCollect ==
    /\ ParseIdle
    /\ MainIdle
    /\ fs \in CollectTrees
    /\ dirs_present = Dirs
    /\ fs_events = 0
    /\ cpu_count \in 1..MaxCpuCount
    /\ \E e \in ExcludeDirArgs, x \in ExcludeExtArgs, m \in CollectMinSizeArgs,
          dot \in BOOLEAN :
           FindDuplicatesEntry(e, x, m, dot)

NextCollect == ScanNext

SpecCollect == InitCollect /\ [][NextCollect]_vars

(***************************************************************************)
(* What a scan of an unchanging tree has to find, read off the tree        *)
(***************************************************************************)
CandidatePaths == {files_to_process[i][1] : i \in DOMAIN files_to_process}

\* the candidates process_file can hash: readable, and not below min_size
ProcessedFiles ==
    {f \in CandidatePaths : /\ fs[f].present
                            /\ fs[f].readable
                            /\ getsize(fs[f].content) >= min_size}

RECURSIVE SizeSum(_)
SizeSum(S) ==
    IF S = {} THEN 0
    ELSE LET f == CHOOSE g \in S : TRUE
         IN getsize(fs[f].content) + SizeSum(S \ {f})

WithDigest(S, h) == {f \in S : md5(fs[f].content) = h}

\* per digest shared by two or more files of S: the size of one file, times the
\* number of the others
RECURSIVE WastedOver(_, _)
WastedOver(S, H) ==
    IF H = {} THEN 0
    ELSE LET h == CHOOSE k \in H : TRUE
             n == Cardinality(WithDigest(S, h))
         IN (IF n >= 2 THEN getsize(CHOOSE c \in Contents : md5(c) = h) * (n - 1) ELSE 0)
              + WastedOver(S, H \ {h})

Members(m) == UNION {Range(m[h]) : h \in Digest}

(***************************************************************************)
(* C1                                                                      *)
(***************************************************************************)
\* C1: on a tree that does not change, the mapping find_duplicates returns has,
\* for every digest, the paths of exactly the processed files with that digest
\* (each once) when there are two or more of them, and no entry otherwise.
C1_DuplicateSets ==
    pc = "returned" =>
        \A h \in Digest :
            LET S == WithDigest(ProcessedFiles, h)
                files == ret.duplicate_files[h]
            IN IF Cardinality(S) >= 2
               THEN Range(files) = S /\ Len(files) = Cardinality(S)
               ELSE files = <<>>

\* a returned scan with a set of three files and a processed file that is alone
\* with its digest
C1_Witness ==
    /\ pc = "returned"
    /\ \E h \in Digest : Len(ret.duplicate_files[h]) = 3
    /\ \E h \in Digest : Cardinality(WithDigest(ProcessedFiles, h)) = 1

(***************************************************************************)
(* C2                                                                      *)
(***************************************************************************)
\* the directories the exclude list names, and the files below them
ExcludedDirs == {d \in Dirs : \E i \in DOMAIN exclude_dirs : PathStr(d) = exclude_dirs[i]}
UnderExcluded(f) == \E d \in ExcludedDirs : IsPrefix(d, f)
NotExcluded(S) == {f \in S : ~ UnderExcluded(f)}

\* C2: no file below an excluded directory, at any depth, is ever submitted for
\* hashing, appears in a duplicate set, or is counted in files_processed or
\* total_size.
C2_ExcludedNeverSubmitted ==
    /\ \A f \in CandidatePaths : ~ UnderExcluded(f)
    /\ \A f \in Members(hash_map) : ~ UnderExcluded(f)
    /\ pc = "returned" =>
           /\ \A f \in Members(ret.duplicate_files) : ~ UnderExcluded(f)
           /\ ret.files_processed = Cardinality(NotExcluded(ProcessedFiles))
           /\ ret.total_size = SizeSum(NotExcluded(ProcessedFiles))

\* a returned scan that excluded data, whose file two levels below data has the
\* content of a processed file outside it
C2_Witness ==
    /\ pc = "returned"
    /\ ExcludedDirs = {<<"data">>}
    /\ <<"a.txt">> \in ProcessedFiles
    /\ fs[<<"data", "sub", "c.log">>].content = fs[<<"a.txt">>].content

(***************************************************************************)
(* C3                                                                      *)
(***************************************************************************)
\* C3: for a readable file process_file returns None when the size is below
\* min_size and the record (hash, path, size) when it is equal or greater; a
\* file below min_size is in no set and in none of the three totals.
C3_SizeThreshold ==
    /\ \A i \in DOMAIN outcome :
           LET f == files_to_process[i][1]
               m == files_to_process[i][2]
               n == getsize(fs[f].content)
           IN (outcome[i] # Pending /\ fs[f].readable) =>
                  outcome[i].result =
                      IF n < m THEN None ELSE Record(md5(fs[f].content), f, n)
    /\ \A f \in Members(hash_map) : getsize(fs[f].content) >= min_size
    /\ pc = "returned" =>
           /\ ret.files_processed = Cardinality(ProcessedFiles)
           /\ ret.total_size = SizeSum(ProcessedFiles)
           /\ ret.duplicate_size = WastedOver(ProcessedFiles, Digest)

\* a returned scan with a file below min_size and a file exactly at min_size
C3_Witness ==
    /\ pc = "returned"
    /\ min_size > 0
    /\ \E i \in DOMAIN outcome : outcome[i].kind = "small"
    /\ \E i \in DOMAIN outcome :
           outcome[i].kind = "record" /\ outcome[i].result.file_size = min_size

(***************************************************************************)
(* C7: the grammar of size strings                                         *)
(***************************************************************************)
\* the number of leading digits of s
RECURSIVE LeadingDigits(_)
LeadingDigits(s) ==
    IF Len(s) > 0 /\ s[1] \in Digits THEN 1 + LeadingDigits(Tail(s)) ELSE 0

\* the power of 1024 an (upper-case) suffix stands for
SuffixPow(suf) ==
    IF suf = <<>> \/ suf = <<"B">> THEN 0 ELSE UNITS(suf[1])

\* what the grammar "digits, then one of the suffixes (in any letter case)" gives
GrammarValue(s, suffixes) ==
    LET u == Upper(s)
        d == LeadingDigits(u)
        suf == SubSeq(u, d + 1, Len(u))
    IN IF d > 0 /\ suf \in suffixes
       THEN Returned(Bytes(ToInt(SubSeq(u, 1, d)), SuffixPow(suf)))
       ELSE ValueError

\* the suffixes of the specification: B, K, KB, M, MB, G, GB, T, TB, or none
SpecSuffixes ==
    {<<>>, <<"B">>} \cup {<<u>> : u \in UnitNames} \cup {<<u, "B">> : u \in UnitNames}

\* the suffixes the code accepts: B, KB, MB, GB, TB, or none
CodeSuffixes ==
    {<<>>, <<"B">>} \cup {<<u, "B">> : u \in UnitNames}

\* C7 as claimed: on every string parse_size returns n * 1024^k for n followed by
\* nothing, B, K, KB, M, MB, G, GB, T or TB (any case), and raises ValueError on
\* every other string.
C7_AsClaimed ==
    parse_out # NotCalled =>
        parse_out = GrammarValue(size_str, SpecSuffixes)

\* C7 amended: on every string parse_size returns n * 1024^k for n followed by
\* nothing, B, KB, MB, GB or TB (any case), and raises ValueError on every other
\* string, the one-letter suffixes K, M, G, T included.
C7_ParseSizeGrammar ==
    parse_out # NotCalled =>
        parse_out = GrammarValue(size_str, CodeSuffixes)

\* a lower-case two-letter unit is parsed, and a one-letter unit is rejected
C7_Witness ==
    \/ size_str = <<"1", "7", "k", "b">> /\ parse_out = Returned(Bytes(17, 1))
    \/ size_str = <<"1", "7", "k">> /\ parse_out = ValueError

(***************************************************************************)
(* C4                                                                      *)
(***************************************************************************)
\* the loop over the results is over
Aggregated == pc \in {"returned", "raised"} \/ (pc = "pool" /\ LoopDone)

OutcomesOf(kind) == {i \in DOMAIN outcome : outcome[i].kind = kind}
RecordsWith(h) == {i \in OutcomesOf("record") : outcome[i].result.file_hash = h}

RECURSIVE RecordSizeSum(_)
RecordSizeSum(I) ==
    IF I = {} THEN 0
    ELSE LET i == CHOOSE j \in I : TRUE
         IN outcome[i].result.file_size + RecordSizeSum(I \ {i})

FailedPaths == {files_to_process[i][1] : i \in OutcomesOf("error")}

\* the aggregate is the one of the record outcomes alone
C4_Inv ==
    /\ FailedPaths \cap Members(hash_map) = {}
    /\ (Aggregated /\ pc # "walk") =>
           /\ \A i \in DOMAIN outcome : outcome[i] # Pending
           /\ \A h \in Digest :
                  /\ Range(hash_map[h]) = {files_to_process[i][1] : i \in RecordsWith(h)}
                  /\ Len(hash_map[h]) = Cardinality(RecordsWith(h))
           /\ total_size = RecordSizeSum(OutcomesOf("record"))
           /\ files_processed = Cardinality(OutcomesOf("record"))
    /\ pc = "returned" =>
           /\ FailedPaths \cap Members(ret.duplicate_files) = {}
           /\ ret.total_size = RecordSizeSum(OutcomesOf("record"))
           /\ ret.files_processed = Cardinality(OutcomesOf("record"))

\* a candidate whose file is missing or unreadable when process_file ends its
\* call gets None
C4_Step ==
    \A i \in DOMAIN outcome :
        LET f == files_to_process[i][1]
        IN (outcome[i] = Pending /\ outcome'[i] # Pending
              /\ (~ fs[f].present \/ ~ fs[f].readable))
           => outcome'[i].result = None

\* C4: when the size lookup, the open or a read of one candidate fails,
\* process_file yields None for that candidate only; every other candidate is
\* still processed and aggregated as if the failing one were absent, and the
\* failing one is in no set and in no total.
C4_FailureIsLocal == [] C4_Inv /\ [][C4_Step]_vars

\* the scan returned: one candidate's file was gone, one's was unreadable, and
\* the third candidate was processed and counted
C4_Witness ==
    /\ pc = "returned"
    /\ \E i \in OutcomesOf("error") : ~ fs[files_to_process[i][1]].present
    /\ \E i \in OutcomesOf("error") :
           fs[files_to_process[i][1]].present /\ ~ fs[files_to_process[i][1]].readable
    /\ OutcomesOf("record") # {}
    /\ ret.files_processed = 1

(***************************************************************************)
(* C5                                                                      *)
(***************************************************************************)
Count(q, x) == Cardinality({j \in DOMAIN q : q[j] = x})
InHand(i) == \E w \in workers : w.idx = i
Queued(i) == Cardinality({j \in DOMAIN results : results[j].idx = i})

C5_Inv ==
    /\ \A i \in DOMAIN outcome :
           /\ (IF InHand(i) THEN 1 ELSE 0) + Queued(i) + Count(consumed, i)
                  = (IF i < next_task THEN 1 ELSE 0)
           /\ outcome[i] = Pending <=> (i >= next_task \/ InHand(i))
           /\ \A j \in DOMAIN results :
                  results[j].idx = i => results[j].result = outcome[i].result
    /\ \A j \in DOMAIN consumed : consumed[j] \in DOMAIN outcome
    /\ files_processed =
           Cardinality({j \in DOMAIN consumed : outcome[consumed[j]].kind = "record"})
    /\ total_size =
           RecordSizeSum({i \in OutcomesOf("record") : Count(consumed, i) = 1})
    /\ pc \in {"returned", "raised"} =>
           /\ DOMAIN outcome = DOMAIN files_to_process
           /\ \A i \in DOMAIN files_to_process : Count(consumed, i) = 1
           /\ workers = {}
           /\ results = <<>>

\* hash_map, total_size and files_processed change only in the step of the loop
\* that takes one result off the queue
C5_Step ==
    agg_vars' # agg_vars =>
        /\ results # <<>>
        /\ results' = Tail(results)
        /\ consumed' = Append(consumed, Head(results).idx)
        /\ workers' = workers
        /\ outcome' = outcome
        /\ next_task' = next_task

\* C5: under every interleaving of the workers, each submitted candidate yields
\* exactly one outcome and the aggregation loop takes it exactly once; hash_map,
\* total_size and files_processed are changed by that loop alone.
C5_ExactlyOnce == [] C5_Inv /\ [][C5_Step]_vars

\* the results of two workers arrived against the order of submission, and the
\* scan returned
C5_Witness ==
    /\ pc = "returned"
    /\ Len(consumed) >= 4
    /\ \E j \in DOMAIN consumed : j < Len(consumed) /\ consumed[j] > consumed[j + 1]
    /\ \E i \in DOMAIN outcome : outcome[i].result = None

(***************************************************************************)
(* C6                                                                      *)
(***************************************************************************)
\* C6: the result does not depend on the order in which the records arrived:
\* keys, members and the two counters are those of the set of records, and
\* duplicate_size is the same whichever member of a set arrived first.
C6_OrderIndependent ==
    pc = "returned" =>
        /\ \A h \in Digest :
               Range(ret.duplicate_files[h]) =
                   IF Cardinality(RecordsWith(h)) >= 2
                   THEN {files_to_process[i][1] : i \in RecordsWith(h)} ELSE {}
        /\ ret.total_size = RecordSizeSum(OutcomesOf("record"))
        /\ ret.files_processed = Cardinality(OutcomesOf("record"))
        /\ \A h \in Keys(ret.duplicate_files) :
               \A j \in DOMAIN ret.duplicate_files[h] :
                   LET first == ret.duplicate_files[h][1]
                       other == ret.duplicate_files[h][j]
                   IN /\ ~ GetsizeFails(other)
                      /\ getsize(fs[other].content) = getsize(fs[first].content)

(***************************************************************************)
(* C8, C9                                                                  *)
(***************************************************************************)
\* the command lines main has to reject
InvalidDirectory == args.directory # RootStr
InvalidMinSize == GrammarValue(args.min_size, CodeSuffixes) = ValueError

\* nothing of a scan or an export has happened
NoScanNoExport ==
    /\ pc = "idle"
    /\ walk_stack = <<>>
    /\ files_to_process = <<>>
    /\ outcome = <<>>
    /\ workers = {}
    /\ ~ exported

\* C8: main exits with code 1 on a directory that does not exist, and on a size
\* string parse_size rejects, both before any traversal, hashing or export; the
\* directory is checked before the size string is parsed.
C8_InvalidArgsExit ==
    /\ (pc_main # "start" /\ InvalidDirectory) =>
           /\ pc_main = "exited"
           /\ exit_code = 1
           /\ log = <<"isdir">>
           /\ NoScanNoExport
    /\ (pc_main \notin {"start", "parse"} /\ ~ InvalidDirectory /\ InvalidMinSize) =>
           /\ pc_main = "exited"
           /\ exit_code = 1
           /\ log = <<"isdir", "parse_size">>
           /\ NoScanNoExport
    /\ \A k \in DOMAIN log : log[k] = "parse_size" => (k = 2 /\ log[1] = "isdir")

\* main has exited on the size string 1K of an existing directory
C8_Witness ==
    /\ pc_main = "exited"
    /\ exit_code = 1
    /\ ~ InvalidDirectory
    /\ args.min_size = <<"1", "K">>

\* C9: with --dry-run, a valid directory and a valid size string, main prints the
\* configuration and returns with status 0; find_duplicates is never called and
\* nothing is exported, -o given or not.
C9_DryRunNeverScans ==
    (args.dry_run /\ ~ InvalidDirectory /\ ~ InvalidMinSize) =>
        /\ NoScanNoExport
        /\ pc_main \notin {"start", "parse", "config"} =>
               /\ pc_main = "exited"
               /\ exit_code = 0
               /\ log = <<"isdir", "parse_size", "print_config">>

\* a dry run with -o has returned
C9_Witness ==
    /\ pc_main = "exited"
    /\ exit_code = 0
    /\ args.dry_run
    /\ args.output
    /\ log = <<"isdir", "parse_size", "print_config">>

(***************************************************************************)
(* C10                                                                     *)
(***************************************************************************)
\* C10: whatever happens to the tree during the scan, find_duplicates returns a
\* result and does not raise.
C10_NeverRaises == pc # "raised"

(***************************************************************************)
(* C11                                                                     *)
(***************************************************************************)
\* a directory below the scanned one with a dot-prefixed component, and a file
\* with such a directory among its ancestors
HasDotComponent(d) == \E k \in DOMAIN d : IsDotName(d[k])
UnderDotDir(f) == HasDotComponent(Parent(f))

\* the directories the traversal still has to list
ToVisit == Range(walk_stack)

\* C11: with ignore_dot_dirs set, the traversal never visits a directory below the
\* scanned one that is dot-prefixed or lies inside a dot-prefixed directory, and
\* no file with a dot-prefixed ancestor directory is ever a candidate.
C11_DotDirsNeverVisited ==
    ignore_dot_dirs =>
        /\ \A d \in ToVisit : ~ HasDotComponent(d)
        /\ \A f \in CandidatePaths : ~ UnderDotDir(f)

(***************************************************************************)
(* C12                                                                     *)
(***************************************************************************)
\* the name of f ends with an excluded extension, letter case set aside
ExtExcluded(f) ==
    \E i \in DOMAIN exclude_extensions :
        EndsWith(Upper(NameChars(BaseName(f))), Upper(exclude_extensions[i]))

\* the files of the tree process_file can hash whose extension is not excluded
HashableKept ==
    {f \in Files : /\ fs[f].present
                   /\ fs[f].readable
                   /\ getsize(fs[f].content) >= min_size
                   /\ ~ ExtExcluded(f)}

\* C12: a file whose name ends, in any letter case, with an excluded extension in
\* any letter case is never a candidate, is in no duplicate set and is counted in
\* no total.
C12_ExtensionExcluded ==
    /\ \A f \in CandidatePaths : ~ ExtExcluded(f)
    /\ \A f \in Members(hash_map) : ~ ExtExcluded(f)
    /\ pc = "returned" =>
           /\ \A f \in Members(ret.duplicate_files) : ~ ExtExcluded(f)
           /\ ret.files_processed <= Cardinality(HashableKept)
           /\ ret.total_size <= SizeSum(HashableKept)
           /\ (exclude_dirs = <<>> /\ ~ ignore_dot_dirs) =>
                  /\ ret.files_processed = Cardinality(HashableKept)
                  /\ ret.total_size = SizeSum(HashableKept)

\* a returned scan of the whole tree that excluded one extension: c.log and d.LOG
\* were both left out, and d.LOG has the content of the processed a.txt
C12_Witness ==
    /\ pc = "returned"
    /\ Len(exclude_extensions) = 1
    /\ exclude_dirs = <<>>
    /\ ~ ignore_dot_dirs
    /\ ExtExcluded(<<"data", "sub", "c.log">>)
    /\ ExtExcluded(<<"data2", "d.LOG">>)
    /\ <<"data2", "d.LOG">> \notin CandidatePaths
    /\ <<"a.txt">> \in Members(ret.duplicate_files)
    /\ fs[<<"data2", "d.LOG">>].content = fs[<<"a.txt">>].content

(***************************************************************************)
(* C13                                                                     *)
(***************************************************************************)
\* the records alone with their digest, and the records that share it
UniqueRecords ==
    {i \in OutcomesOf("record") :
         Cardinality(RecordsWith(outcome[i].result.file_hash)) = 1}
SharedRecords == OutcomesOf("record") \ UniqueRecords

\* C13: when the loop over the results is over, every candidate has ended as a
\* record, as filtered by size or as failed; files_processed is the number of
\* the records and total_size the sum of the sizes they carry, the records
\* outside every duplicate set included; find_duplicates returns these two.
C13_Totals ==
    Aggregated =>
        /\ OutcomesOf("record") \cup OutcomesOf("small") \cup OutcomesOf("error")
               = DOMAIN files_to_process
        /\ files_processed = Cardinality(UniqueRecords) + Cardinality(SharedRecords)
        /\ total_size = RecordSizeSum(UniqueRecords) + RecordSizeSum(SharedRecords)
        /\ pc = "returned" =>
               /\ ret.files_processed = files_processed
               /\ ret.total_size = total_size

\* a returned scan with one candidate filtered by size, one that failed, and one
\* record that is in no duplicate set and makes up the totals
C13_Witness ==
    /\ pc = "returned"
    /\ OutcomesOf("small") # {}
    /\ OutcomesOf("error") # {}
    /\ Cardinality(UniqueRecords) = 1
    /\ Keys(ret.duplicate_files) = {}
    /\ ret.files_processed = 1
    /\ ret.total_size > 0

(***************************************************************************)
(* C14                                                                     *)
(***************************************************************************)
\* the size process_file measured for the candidate f, carried by its record
RecordedSize(f) ==
    LET i == CHOOSE j \in OutcomesOf("record") : files_to_process[j][1] = f
    IN outcome[i].result.file_size

\* per returned set: the measured size of its first member, times the number of
\* the other members
RECURSIVE RecordedWaste(_, _)
RecordedWaste(dup, S) ==
    IF S = {} THEN 0
    ELSE LET h == CHOOSE k \in S : TRUE
         IN RecordedSize(dup[h][1]) * (Len(dup[h]) - 1) + RecordedWaste(dup, S \ {h})

\* C14: the returned duplicate_size is the sum over the returned sets of the size
\* measured for one member when it was hashed, times the number of the other
\* members; it is at most total_size, and smaller when a processed file is not
\* empty.
C14_DuplicateSizeMeasured ==
    pc = "returned" =>
        /\ ret.duplicate_size =
               RecordedWaste(ret.duplicate_files, Keys(ret.duplicate_files))
        /\ ret.duplicate_size <= ret.total_size
        /\ ret.total_size > 0 => ret.duplicate_size < ret.total_size

(***************************************************************************)
(* C15                                                                     *)
(***************************************************************************)
\* the files of the tree that pass the three filters of the collection
Collectable ==
    {f \in Files : /\ fs[f].present
                   /\ ~ UnderExcluded(f)
                   /\ ignore_dot_dirs => ~ UnderDotDir(f)
                   /\ ~ ExtExcluded(f)}

Submissions(f) ==
    Cardinality({i \in DOMAIN files_to_process : files_to_process[i][1] = f})

\* C15: once the walk is over, every file of the tree that is below no excluded
\* directory, below no dot-prefixed directory when these are pruned, and whose
\* name ends with no excluded extension, has been submitted exactly once; so is
\* a file of data2 when data is excluded.
C15_CollectionComplete ==
    pc # "walk" => \A f \in Collectable : Submissions(f) = 1

====
